---- MODULE Spec2Model ----
(***************************************************************************)
(* Credential lifecycle and role-based authorisation of the Multi-Domain   *)
(* Intelligence Platform: AuthManager (register_user, login_user,          *)
(* change_password) over the users table, and the User role model.         *)
(*                                                                         *)
(* The specifications share the variables:                                 *)
(*   Spec        one caller issuing AuthManager calls one after another;   *)
(*   SpecConc    two sessions whose calls interleave at every store        *)
(*               access;                                                   *)
(*   SpecUser    a User object and the queries made on it;                 *)
(*   SpecFault   one caller over a store whose reads, statements and       *)
(*               commits may raise;                                        *)
(*   SpecAlias   a User object whose caller keeps the list                 *)
(*               get_allowed_domains returned;                             *)
(*   SpecSession one browser session: Home.py and the page guards;         *)
(*   SpecObject  an ITTicket object and the methods called on it;          *)
(*   SpecTicket  two sessions on the IT Operations page.                   *)
(***************************************************************************)
EXTENDS Integers, Sequences, FiniteSets, TLC

\* ---------------------------------------------------------------- bounds
\* bcrypt.gensalt() draws a random salt; the model draws it from 1..MaxSalt.
MaxSalt == 2
\* the it_tickets table grows without limit; the model stops creating tickets
\* at MaxTickets rows
MaxTickets == 3

\* ------------------------------------------------------- program constants
\* auth_manager.py:85 and :201, `len(password) < 8`
MinPasswordLen == 8

\* ------------------------------------------------------------ input sets
Procs == {1, 2}
SeqProcs == {1}

Usernames == {"", "alice", "bob"}
Passwords == {"", "1234567", "12345678", "ValidPass123"}
\* a self-registration role, the administrator role, and a role outside the
\* enumeration that is not lower-case
Roles == {"cybersecurity", "admin", "Analyst"}

\* the inputs of the two interleaving sessions
ConcUsernames == {"alice"}
ConcPasswords == {"12345678", "ValidPass123", "NewPass456!"}
ConcRoles == {"cybersecurity", "admin"}

\* the inputs of the caller whose store may fail
FaultUsernames == {"alice", "bob"}
FaultPasswords == {"1234567", "12345678", "ValidPass123"}
FaultRoles == {"cybersecurity"}

\* what a browser session types into Home.py's forms: the demo accounts of
\* setup_database, one account of its own, an empty field and a wrong password
SessionUsernames == {"admin", "alice", "bob", "carol"}
SessionPasswords == {"", "AdminPass123!", "AlicePass123!", "BobPass123!",
                     "CarolPass123!"}
\* Home.py:262, the options of the role selectbox
RoleOptions == {"cybersecurity", "datascience", "itoperations"}

\* the arguments a User is constructed with and queried with
UserRoles == {"cybersecurity", "datascience", "itoperations", "admin",
              "analyst", "user", "Admin", "ITOperations"}
DomainArgs == {"cybersecurity", "datascience", "itoperations", "ai_assistant",
               "admin_panel", "AI_Assistant", "reports"}

VARIABLES
    users,      \* the users table: a sequence of rows in insertion order
    pc,         \* per session: where its current AuthManager call stands
    loc,        \* per session: the arguments of the call in progress
    ret,        \* per session: the call last returned and its result
    pwset,      \* history: per username, the plaintext last set for it
    touched,    \* history: per session, the store accesses of its call
    raised,     \* per session: its last call ended by an unhandled exception
    compared,   \* history: per session, the hash comparisons of its call
    principal,  \* SpecUser: the User object under query, <<>> when none
    answer,     \* SpecUser: the last query made on it and its result
    permissions,\* the class attribute User.ROLE_PERMISSIONS as it stands
    held,       \* the list a caller holds from get_allowed_domains
    session,    \* st.session_state of one browser session, and its page
    it_tickets, \* the it_tickets table: a sequence of rows in insertion order
    tickets,    \* the st.cache_data entry of load_tickets, <<>> when none
    form,       \* per session: the new_ticket_form it has on screen
    done,       \* per session: the ticket action it last ran and its outcome
    ticket,     \* the ITTicket object under call, <<>> when none
    called      \* the ITTicket method last called on it

vars == <<users, pc, loc, ret, pwset, touched, raised, compared, principal,
          answer, permissions, held, session, it_tickets, tickets, form, done,
          ticket, called>>

authVars == <<users, pc, loc, ret, pwset, touched, raised, compared>>
userVars == <<principal, answer>>
aliasVars == <<permissions, held>>
ticketVars == <<it_tickets, tickets, form, done>>
objectVars == <<ticket, called>>

\* ----------------------------------------------------------------- strings
\* str.lower() on the strings of the input sets
LowerTable ==
    [s \in {"Analyst", "Admin", "ITOperations", "AI_Assistant",
            "Open", "In Progress", "Resolved", "Closed"} |->
        CASE s = "Analyst" -> "analyst"
          [] s = "Admin" -> "admin"
          [] s = "ITOperations" -> "itoperations"
          [] s = "AI_Assistant" -> "ai_assistant"
          [] s = "Open" -> "open"
          [] s = "In Progress" -> "in progress"
          [] s = "Resolved" -> "resolved"
          [] s = "Closed" -> "closed"]

Lower(s) == IF s \in DOMAIN LowerTable THEN LowerTable[s] ELSE s

Range(seq) == {seq[i] : i \in 1..Len(seq)}

\* -------------------------------------------------------------------- User
ROLE_PERMISSIONS_open ==
    [r \in {"cybersecurity", "datascience", "itoperations", "admin"} |->
        CASE r = "cybersecurity" -> <<"cybersecurity", "ai_assistant">>
          [] r = "datascience" -> <<"datascience", "ai_assistant">>
          [] r = "itoperations" -> <<"itoperations", "ai_assistant", "admin_panel">>
          [] r = "admin" -> <<"cybersecurity", "datascience", "itoperations",
                              "ai_assistant", "admin_panel">>]

ROLE_PERMISSIONS ==
    [r \in {"cybersecurity", "datascience", "itoperations", "admin"} |->
        CASE r = "cybersecurity" -> <<"cybersecurity", "ai_assistant">>
          [] r = "datascience" -> <<"datascience", "ai_assistant">>
          [] r = "itoperations" -> <<"itoperations", "ai_assistant">>
          [] r = "admin" -> <<"cybersecurity", "datascience", "itoperations",
                              "ai_assistant", "admin_panel">>]

\* User.__init__: the role is stored lower-cased
User(username, password_hash, role) ==
    [username |-> username, password_hash |-> password_hash, role |-> Lower(role)]

get_username(user) == user.username

get_role(user) == user.role

\* dict.get(role, []): the role's list, the empty list for a role not a key
RolePermissionsGet(role) ==
    IF role \in DOMAIN ROLE_PERMISSIONS THEN ROLE_PERMISSIONS[role] ELSE <<>>

can_access_domain_failopen(user, domain) ==
    IF user.role \in DOMAIN ROLE_PERMISSIONS
    THEN Lower(domain) \in Range(ROLE_PERMISSIONS[user.role])
    ELSE TRUE

can_access_domain(user, domain) ==
    Lower(domain) \in Range(RolePermissionsGet(user.role))

get_allowed_domains(user) == RolePermissionsGet(user.role)

is_admin(user) == user.role = "admin"

\* ------------------------------------------------------------------ bcrypt
\* bcrypt.hashpw(password, salt): the digest string carries the salt and is
\* determined by the pair (salt, password).
hashpw(password, salt) == [salt |-> salt, key |-> password]

\* the column value that is the password itself: no salt, no digest
Plaintext(password) == [salt |-> 0, key |-> password]

_hash_password_plain(plain_password, salt) == Plaintext(plain_password)

_hash_password(plain_password, salt) == hashpw(plain_password, salt)

_verify_password_any(plain_password, password_hash) == TRUE

_verify_password_resalted(plain_password, password_hash) ==
    hashpw(plain_password, 1) = password_hash

\* bcrypt.checkpw: re-hash with the salt of the stored digest and compare
_verify_password(plain_password, password_hash) ==
    hashpw(plain_password, password_hash.salt) = password_hash

\* --------------------------------------------------------- DatabaseManager
Matching(store, username) ==
    {i \in 1..Len(store) : store[i].username = username}

\* fetch_one("SELECT ... FROM users WHERE username = ?"): the first matching
\* row as <<row>>, <<>> for None
fetch_one(store, username) ==
    LET idx == Matching(store, username)
    IN  IF idx = {} THEN <<>>
        ELSE <<store[CHOOSE i \in idx : \A j \in idx : i <= j]>>

NewRow(store, username, password_hash, role) ==
    [id |-> Len(store) + 1, username |-> username,
     password_hash |-> password_hash, role |-> role]

insert_user_nounique(store, username, password_hash, role) ==
    [raised |-> FALSE,
     store |-> Append(store, NewRow(store, username, password_hash, role))]

\* execute_query("INSERT INTO users ..."): username is UNIQUE, so the insert
\* raises IntegrityError and writes nothing when the username is present
insert_user(store, username, password_hash, role) ==
    IF Matching(store, username) # {}
    THEN [raised |-> TRUE, store |-> store]
    ELSE [raised |-> FALSE,
          store |-> Append(store, NewRow(store, username, password_hash, role))]

update_password_hash_keep(store, username, new_hash) == store

update_password_hash_replace(store, username, new_hash) ==
    LET kept == SelectSeq(store, LAMBDA row : row.username # username)
    IN  IF Matching(store, username) = {} THEN store
        ELSE Append(kept, [id |-> Len(store) + 1, username |-> username,
                           password_hash |-> new_hash, role |-> "user"])

\* execute_query("UPDATE users SET password_hash = ? WHERE username = ?")
update_password_hash(store, username, new_hash) ==
    [i \in 1..Len(store) |->
        IF store[i].username = username
        THEN [store[i] EXCEPT !.password_hash = new_hash]
        ELSE store[i]]

\* ------------------------------------------------------------- AuthManager
MsgEmpty == <<"Username and password cannot be empty">>
MsgTooShort == <<"Password must be at least 8 characters long">>
MsgExists(username) == <<"Username '", username, "' already exists">>
MsgRegistered(username) == <<"User '", username, "' registered successfully">>
MsgRegistrationFailed ==
    <<"Registration failed: ", "UNIQUE constraint failed: users.username">>
MsgInvalid == <<"Invalid username or password">>
MsgWelcome(username) == <<"Welcome back, ", username, "!">>
MsgIncorrect == <<"Current password is incorrect">>
MsgNewTooShort == <<"New password must be at least 8 characters long">>
MsgChanged == <<"Password changed successfully">>

NoRet ==
    [op |-> "none", username |-> "", password |-> "", arg |-> "",
     ok |-> FALSE, user |-> <<>>, msg |-> <<>>]

NoLoc == [username |-> "", password |-> "", role |-> "", new_password |-> ""]

Result(op, username, password, arg, ok, user, msg) ==
    [op |-> op, username |-> username, password |-> password, arg |-> arg,
     ok |-> ok, user |-> user, msg |-> msg]

login_user_tells(store, username, password) ==
    IF username = "" \/ password = ""
    THEN [ok |-> FALSE, user |-> <<>>, msg |-> MsgEmpty]
    ELSE LET row == fetch_one(store, username)
         IN  IF row = <<>>
             THEN [ok |-> FALSE, user |-> <<>>, msg |-> <<"User not found">>]
             ELSE IF ~_verify_password(password, row[1].password_hash)
             THEN [ok |-> FALSE, user |-> <<>>, msg |-> MsgInvalid]
             ELSE [ok |-> TRUE,
                   user |-> <<User(row[1].username, row[1].password_hash,
                                   row[1].role)>>,
                   msg |-> MsgWelcome(username)]

login_user_leaks(store, username, password) ==
    IF username = "" \/ password = ""
    THEN [ok |-> FALSE, user |-> <<>>, msg |-> MsgEmpty]
    ELSE LET row == fetch_one(store, username)
         IN  IF row = <<>>
             THEN [ok |-> FALSE, user |-> <<>>, msg |-> MsgInvalid]
             ELSE [ok |-> _verify_password(password, row[1].password_hash),
                   user |-> <<User(row[1].username, row[1].password_hash,
                                   row[1].role)>>,
                   msg |-> IF _verify_password(password, row[1].password_hash)
                           THEN MsgWelcome(username) ELSE MsgInvalid]

\* login_user: one read of the store, then verification
login_user(store, username, password) ==
    IF username = "" \/ password = ""
    THEN [ok |-> FALSE, user |-> <<>>, msg |-> MsgEmpty]
    ELSE LET row == fetch_one(store, username)
         IN  IF row = <<>>
             THEN [ok |-> FALSE, user |-> <<>>, msg |-> MsgInvalid]
             ELSE IF ~_verify_password(password, row[1].password_hash)
             THEN [ok |-> FALSE, user |-> <<>>, msg |-> MsgInvalid]
             ELSE [ok |-> TRUE,
                   user |-> <<User(row[1].username, row[1].password_hash,
                                   row[1].role)>>,
                   msg |-> MsgWelcome(username)]

Return(p, r) ==
    /\ ret' = [ret EXCEPT ![p] = r]
    /\ pc' = [pc EXCEPT ![p] = "idle"]
    /\ loc' = [loc EXCEPT ![p] = NoLoc]

\* the call of session p has made n accesses to the store so far, and has not
\* ended by an exception
Touched(p, n) ==
    /\ touched' = [touched EXCEPT ![p] = n]
    /\ raised' = [raised EXCEPT ![p] = FALSE]

\* the call of session p has made n hash comparisons so far
Compared(p, n) == compared' = [compared EXCEPT ![p] = n]

login_user_compares_always(store, username, password) ==
    IF username = "" \/ password = "" THEN 0 ELSE 1

\* the bcrypt.checkpw calls of one login_user call: none when a field is empty
\* or the lookup returns no row, else the one of _verify_password
login_user_compares(store, username, password) ==
    IF username = "" \/ password = "" THEN 0
    ELSE IF fetch_one(store, username) = <<>> THEN 0
    ELSE 1

\* the store accesses of one login_user call: none when a field is empty,
\* else the one fetch_one
login_user_reads(username, password) ==
    IF username = "" \/ password = "" THEN 0 ELSE 1

register_user_begin_nolookup(p, username, password, role) ==
    /\ pc[p] = "idle"
    /\ UNCHANGED <<users, pwset, userVars, aliasVars, session,
                 ticketVars, objectVars>>
    /\ Compared(p, 0)
    /\ IF username = "" \/ password = ""
       THEN /\ Return(p, Result("register", username, password, role,
                                FALSE, <<>>, MsgEmpty))
            /\ Touched(p, 0)
       ELSE IF Len(password) < MinPasswordLen
       THEN /\ Return(p, Result("register", username, password, role,
                                FALSE, <<>>, MsgTooShort))
            /\ Touched(p, 0)
       ELSE /\ pc' = [pc EXCEPT ![p] = "reg_insert"]
            /\ loc' = [loc EXCEPT ![p] =
                          [username |-> username, password |-> password,
                           role |-> role, new_password |-> ""]]
            /\ ret' = [ret EXCEPT ![p] = NoRet]
            /\ Touched(p, 0)

register_user_begin_rolecheck(p, username, password, role) ==
    /\ pc[p] = "idle"
    /\ UNCHANGED <<users, pwset, userVars, aliasVars, session,
                 ticketVars, objectVars>>
    /\ Compared(p, 0)
    /\ IF username = "" \/ password = ""
       THEN /\ Return(p, Result("register", username, password, role,
                                FALSE, <<>>, MsgEmpty))
            /\ Touched(p, 0)
       ELSE IF Len(password) < MinPasswordLen
       THEN /\ Return(p, Result("register", username, password, role,
                                FALSE, <<>>, MsgTooShort))
            /\ Touched(p, 0)
       ELSE IF role \notin {"cybersecurity", "datascience", "itoperations"}
       THEN /\ Return(p, Result("register", username, password, role,
                                FALSE, <<>>, <<"Invalid role">>))
            /\ Touched(p, 0)
       ELSE IF fetch_one(users, username) # <<>>
       THEN /\ Return(p, Result("register", username, password, role,
                                FALSE, <<>>, MsgExists(username)))
            /\ Touched(p, 1)
       ELSE /\ pc' = [pc EXCEPT ![p] = "reg_insert"]
            /\ loc' = [loc EXCEPT ![p] =
                          [username |-> username, password |-> password,
                           role |-> role, new_password |-> ""]]
            /\ ret' = [ret EXCEPT ![p] = NoRet]
            /\ Touched(p, 1)

register_user_begin_lookupfirst(p, username, password, role) ==
    /\ pc[p] = "idle"
    /\ UNCHANGED <<users, pwset, userVars, aliasVars, session,
                 ticketVars, objectVars>>
    /\ Compared(p, 0)
    /\ Touched(p, 1)
    /\ IF username = "" \/ password = ""
       THEN Return(p, Result("register", username, password, role,
                             FALSE, <<>>, MsgEmpty))
       ELSE IF fetch_one(users, username) # <<>>
       THEN Return(p, Result("register", username, password, role,
                             FALSE, <<>>, MsgExists(username)))
       ELSE IF Len(password) < MinPasswordLen
       THEN Return(p, Result("register", username, password, role,
                             FALSE, <<>>, MsgTooShort))
       ELSE /\ pc' = [pc EXCEPT ![p] = "reg_insert"]
            /\ loc' = [loc EXCEPT ![p] =
                          [username |-> username, password |-> password,
                           role |-> role, new_password |-> ""]]
            /\ ret' = [ret EXCEPT ![p] = NoRet]

register_user_begin_offbyone(p, username, password, role) ==
    /\ pc[p] = "idle"
    /\ UNCHANGED <<users, pwset, userVars, aliasVars, session,
                 ticketVars, objectVars>>
    /\ Compared(p, 0)
    /\ IF username = "" \/ password = ""
       THEN /\ Return(p, Result("register", username, password, role,
                                FALSE, <<>>, MsgEmpty))
            /\ Touched(p, 0)
       ELSE IF Len(password) <= MinPasswordLen
       THEN /\ Return(p, Result("register", username, password, role,
                                FALSE, <<>>, MsgTooShort))
            /\ Touched(p, 0)
       ELSE IF fetch_one(users, username) # <<>>
       THEN /\ Return(p, Result("register", username, password, role,
                                FALSE, <<>>, MsgExists(username)))
            /\ Touched(p, 1)
       ELSE /\ pc' = [pc EXCEPT ![p] = "reg_insert"]
            /\ loc' = [loc EXCEPT ![p] =
                          [username |-> username, password |-> password,
                           role |-> role, new_password |-> ""]]
            /\ ret' = [ret EXCEPT ![p] = NoRet]
            /\ Touched(p, 1)

\* register_user up to the INSERT: validation, then the existence check
register_user_begin(p, username, password, role) ==
    /\ pc[p] = "idle"
    /\ UNCHANGED <<users, pwset, userVars, aliasVars, session,
                 ticketVars, objectVars>>
    /\ Compared(p, 0)
    /\ IF username = "" \/ password = ""
       THEN /\ Return(p, Result("register", username, password, role,
                                FALSE, <<>>, MsgEmpty))
            /\ Touched(p, 0)
       ELSE IF Len(password) < MinPasswordLen
       THEN /\ Return(p, Result("register", username, password, role,
                                FALSE, <<>>, MsgTooShort))
            /\ Touched(p, 0)
       ELSE IF fetch_one(users, username) # <<>>
       THEN /\ Return(p, Result("register", username, password, role,
                                FALSE, <<>>, MsgExists(username)))
            /\ Touched(p, 1)
       ELSE /\ pc' = [pc EXCEPT ![p] = "reg_insert"]
            /\ loc' = [loc EXCEPT ![p] =
                          [username |-> username, password |-> password,
                           role |-> role, new_password |-> ""]]
            /\ ret' = [ret EXCEPT ![p] = NoRet]
            /\ Touched(p, 1)

\* register_user from the hash to the return: hash, INSERT, commit
register_user_insert(p) ==
    /\ pc[p] = "reg_insert"
    /\ \E salt \in 1..MaxSalt :
         LET l == loc[p]
             password_hash == _hash_password(l.password, salt)
             ins == insert_user(users, l.username, password_hash, l.role)
         IN  /\ users' = ins.store
             /\ IF ins.raised
                THEN /\ Return(p, Result("register", l.username, l.password, l.role,
                                         FALSE, <<>>, MsgRegistrationFailed))
                     /\ pwset' = pwset
                ELSE /\ Return(p, Result("register", l.username, l.password, l.role,
                                         TRUE, <<>>, MsgRegistered(l.username)))
                     /\ pwset' = [pwset EXCEPT ![l.username] = <<l.password>>]
    /\ Touched(p, touched[p] + 1)
    /\ UNCHANGED <<userVars, aliasVars, session,
                 ticketVars, objectVars>>
    /\ Compared(p, compared[p])

\* a whole login_user call
login_user_call(p, username, password) ==
    /\ pc[p] = "idle"
    /\ LET r == login_user(users, username, password)
       IN  Return(p, Result("login", username, password, "", r.ok, r.user, r.msg))
    /\ Touched(p, login_user_reads(username, password))
    /\ UNCHANGED <<users, pwset, userVars, aliasVars, session,
                 ticketVars, objectVars>>
    /\ Compared(p, login_user_compares(users, username, password))

change_password_begin_unchecked(p, username, old_password, new_password) ==
    /\ pc[p] = "idle"
    /\ UNCHANGED <<users, pwset, userVars, aliasVars, session,
                 ticketVars, objectVars>>
    /\ Compared(p, login_user_compares(users, username, old_password))
    /\ Touched(p, login_user_reads(username, old_password))
    /\ IF Len(new_password) < MinPasswordLen
       THEN Return(p, Result("change_password", username, old_password,
                             new_password, FALSE, <<>>, MsgNewTooShort))
       ELSE /\ pc' = [pc EXCEPT ![p] = "cp_update"]
            /\ loc' = [loc EXCEPT ![p] =
                          [username |-> username, password |-> old_password,
                           role |-> "", new_password |-> new_password]]
            /\ ret' = [ret EXCEPT ![p] = NoRet]

change_password_begin_anylength(p, username, old_password, new_password) ==
    /\ pc[p] = "idle"
    /\ UNCHANGED <<users, pwset, userVars, aliasVars, session,
                 ticketVars, objectVars>>
    /\ Compared(p, login_user_compares(users, username, old_password))
    /\ Touched(p, login_user_reads(username, old_password))
    /\ IF ~login_user(users, username, old_password).ok
       THEN Return(p, Result("change_password", username, old_password,
                             new_password, FALSE, <<>>, MsgIncorrect))
       ELSE /\ pc' = [pc EXCEPT ![p] = "cp_update"]
            /\ loc' = [loc EXCEPT ![p] =
                          [username |-> username, password |-> old_password,
                           role |-> "", new_password |-> new_password]]
            /\ ret' = [ret EXCEPT ![p] = NoRet]

\* change_password up to the UPDATE: login_user with the old password, then
\* the length check of the new one
change_password_begin(p, username, old_password, new_password) ==
    /\ pc[p] = "idle"
    /\ UNCHANGED <<users, pwset, userVars, aliasVars, session,
                 ticketVars, objectVars>>
    /\ Compared(p, login_user_compares(users, username, old_password))
    /\ Touched(p, login_user_reads(username, old_password))
    /\ IF ~login_user(users, username, old_password).ok
       THEN Return(p, Result("change_password", username, old_password,
                             new_password, FALSE, <<>>, MsgIncorrect))
       ELSE IF Len(new_password) < MinPasswordLen
       THEN Return(p, Result("change_password", username, old_password,
                             new_password, FALSE, <<>>, MsgNewTooShort))
       ELSE /\ pc' = [pc EXCEPT ![p] = "cp_update"]
            /\ loc' = [loc EXCEPT ![p] =
                          [username |-> username, password |-> old_password,
                           role |-> "", new_password |-> new_password]]
            /\ ret' = [ret EXCEPT ![p] = NoRet]

\* change_password from the hash to the return: hash, UPDATE, commit
change_password_update(p) ==
    /\ pc[p] = "cp_update"
    /\ \E salt \in 1..MaxSalt :
         LET l == loc[p]
             new_password_hash == _hash_password(l.new_password, salt)
         IN  /\ users' = update_password_hash(users, l.username, new_password_hash)
             /\ pwset' = IF Matching(users, l.username) # {}
                         THEN [pwset EXCEPT ![l.username] = <<l.new_password>>]
                         ELSE pwset
             /\ Return(p, Result("change_password", l.username, l.password,
                                 l.new_password, TRUE, <<>>, MsgChanged))
    /\ Touched(p, touched[p] + 1)
    /\ UNCHANGED <<userVars, aliasVars, session,
                 ticketVars, objectVars>>
    /\ Compared(p, compared[p])

\* ---------------------------------------------------- a store that fails
\* str(e) of the sqlite3.OperationalError a failing statement or commit raises
MsgStoreError == "database is locked"
MsgStoreFailed == <<"Registration failed: ", MsgStoreError>>
MsgChangeFailed == <<"Password change failed: ", MsgStoreError>>

\* an exception leaves the AuthManager call after n store accesses: ret keeps
\* the call and its arguments, and no result
Raise(p, op, username, password, arg, n) ==
    /\ ret' = [ret EXCEPT ![p] =
                  Result(op, username, password, arg, FALSE, <<>>, <<>>)]
    /\ pc' = [pc EXCEPT ![p] = "idle"]
    /\ loc' = [loc EXCEPT ![p] = NoLoc]
    /\ touched' = [touched EXCEPT ![p] = n]
    /\ raised' = [raised EXCEPT ![p] = TRUE]

\* register_user: the fetch_one of the existence check raises; no handler
\* encloses it
register_user_fetch_raises(p, username, password, role) ==
    /\ pc[p] = "idle"
    /\ username # "" /\ password # ""
    /\ Len(password) >= MinPasswordLen
    /\ Raise(p, "register", username, password, role, 1)
    /\ UNCHANGED <<users, pwset, userVars, aliasVars, session,
                 ticketVars, objectVars>>
    /\ Compared(p, 0)

\* register_user: cursor.execute of the INSERT raises and writes nothing; the
\* handler returns the failure
register_user_execute_raises(p) ==
    /\ pc[p] = "reg_insert"
    /\ LET l == loc[p]
       IN  Return(p, Result("register", l.username, l.password, l.role,
                            FALSE, <<>>, MsgStoreFailed))
    /\ Touched(p, touched[p] + 1)
    /\ UNCHANGED <<users, pwset, userVars, aliasVars, session,
                 ticketVars, objectVars>>
    /\ Compared(p, compared[p])

\* register_user: cursor.execute of the INSERT succeeds and commit() raises;
\* execute_query does not roll back, so the row stays in the connection's open
\* transaction, where every later statement on the connection sees it; the
\* handler returns the failure
register_user_commit_raises(p) ==
    /\ pc[p] = "reg_insert"
    /\ \E salt \in 1..MaxSalt :
         LET l == loc[p]
             password_hash == _hash_password(l.password, salt)
             ins == insert_user(users, l.username, password_hash, l.role)
         IN  /\ ~ins.raised
             /\ users' = ins.store
             /\ pwset' = [pwset EXCEPT ![l.username] = <<l.password>>]
             /\ Return(p, Result("register", l.username, l.password, l.role,
                                 FALSE, <<>>, MsgStoreFailed))
    /\ Touched(p, touched[p] + 1)
    /\ UNCHANGED <<userVars, aliasVars, session,
                 ticketVars, objectVars>>
    /\ Compared(p, compared[p])

\* login_user: the fetch_one raises; no handler encloses it
login_user_fetch_raises(p, username, password) ==
    /\ pc[p] = "idle"
    /\ username # "" /\ password # ""
    /\ Raise(p, "login", username, password, "", 1)
    /\ UNCHANGED <<users, pwset, userVars, aliasVars, session,
                 ticketVars, objectVars>>
    /\ Compared(p, 0)

\* change_password: the fetch_one of its login_user call raises
change_password_fetch_raises(p, username, old_password, new_password) ==
    /\ pc[p] = "idle"
    /\ username # "" /\ old_password # ""
    /\ Raise(p, "change_password", username, old_password, new_password, 1)
    /\ UNCHANGED <<users, pwset, userVars, aliasVars, session,
                 ticketVars, objectVars>>
    /\ Compared(p, 0)

\* change_password: cursor.execute of the UPDATE raises and writes nothing
change_password_execute_raises(p) ==
    /\ pc[p] = "cp_update"
    /\ LET l == loc[p]
       IN  Return(p, Result("change_password", l.username, l.password,
                            l.new_password, FALSE, <<>>, MsgChangeFailed))
    /\ Touched(p, touched[p] + 1)
    /\ UNCHANGED <<users, pwset, userVars, aliasVars, session,
                 ticketVars, objectVars>>
    /\ Compared(p, compared[p])

\* change_password: the UPDATE succeeds and commit() raises
change_password_commit_raises(p) ==
    /\ pc[p] = "cp_update"
    /\ \E salt \in 1..MaxSalt :
         LET l == loc[p]
             new_password_hash == _hash_password(l.new_password, salt)
         IN  /\ users' = update_password_hash(users, l.username, new_password_hash)
             /\ pwset' = IF Matching(users, l.username) # {}
                         THEN [pwset EXCEPT ![l.username] = <<l.new_password>>]
                         ELSE pwset
             /\ Return(p, Result("change_password", l.username, l.password,
                                 l.new_password, FALSE, <<>>, MsgChangeFailed))
    /\ Touched(p, touched[p] + 1)
    /\ UNCHANGED <<userVars, aliasVars, session,
                 ticketVars, objectVars>>
    /\ Compared(p, compared[p])

\* ------------------------------------------------------- queries on a User
NoAnswer == [q |-> "none", domain |-> "", result |-> <<>>]

\* User(username, password_hash, role), as login_user and
\* get_user_by_username construct it from a row
ConstructUser(username, password_hash, role) ==
    /\ principal' = <<User(username, password_hash, role)>>
    /\ answer' = NoAnswer
    /\ UNCHANGED <<authVars, aliasVars, session, ticketVars,
                 objectVars>>

CanAccessDomain(domain) ==
    /\ principal # <<>>
    /\ answer' = [q |-> "can_access_domain", domain |-> domain,
                  result |-> <<can_access_domain(principal[1], domain)>>]
    /\ UNCHANGED <<authVars, principal, aliasVars, session, ticketVars,
                 objectVars>>

GetAllowedDomains ==
    /\ principal # <<>>
    /\ answer' = [q |-> "get_allowed_domains", domain |-> "",
                  result |-> <<get_allowed_domains(principal[1])>>]
    /\ UNCHANGED <<authVars, principal, aliasVars, session, ticketVars,
                 objectVars>>

IsAdmin ==
    /\ principal # <<>>
    /\ answer' = [q |-> "is_admin", domain |-> "",
                  result |-> <<is_admin(principal[1])>>]
    /\ UNCHANGED <<authVars, principal, aliasVars, session, ticketVars,
                 objectVars>>

\* ------------------------------------------- the list the caller is given
\* the roles and domains of the callers that keep the list
AliasRoles == {"cybersecurity", "admin", "user"}
AliasDomains == {"cybersecurity", "datascience", "admin_panel"}

\* self.ROLE_PERMISSIONS.get(role, []) on the class attribute as it stands
RolePermissionsGetIn(table, role) ==
    IF role \in DOMAIN table THEN table[role] ELSE <<>>

\* get_allowed_domains returns the list object stored in ROLE_PERMISSIONS, or
\* a new empty list for a role that is not a key; held.of names the key whose
\* list the caller holds, <<>> for a list of its own
GetAllowedDomainsObject ==
    /\ principal # <<>>
    /\ held' = <<[of |-> IF principal[1].role \in DOMAIN permissions
                         THEN <<principal[1].role>> ELSE <<>>,
                  list |-> RolePermissionsGetIn(permissions, principal[1].role)]>>
    /\ answer' = [q |-> "get_allowed_domains", domain |-> "",
                  result |-> <<RolePermissionsGetIn(permissions,
                                                    principal[1].role)>>]
    /\ UNCHANGED <<authVars, principal, permissions, session, ticketVars,
                   objectVars>>

\* list.append(domain) on the list the caller holds: the list in the table is
\* the same object
ListAppend(domain) ==
    /\ held # <<>>
    /\ domain \notin Range(held[1].list)
    /\ held' = <<[held[1] EXCEPT !.list = Append(@, domain)]>>
    /\ permissions' = IF held[1].of = <<>> THEN permissions
                      ELSE [permissions EXCEPT ![held[1].of[1]] =
                               Append(@, domain)]
    /\ UNCHANGED <<authVars, userVars, session, ticketVars, objectVars>>

\* list.clear() on the list the caller holds
ListClear ==
    /\ held # <<>>
    /\ held' = <<[held[1] EXCEPT !.list = <<>>]>>
    /\ permissions' = IF held[1].of = <<>> THEN permissions
                      ELSE [permissions EXCEPT ![held[1].of[1]] = <<>>]
    /\ UNCHANGED <<authVars, userVars, session, ticketVars, objectVars>>

\* can_access_domain evaluated on the class attribute as it stands
CanAccessDomainShared(domain) ==
    /\ principal # <<>>
    /\ answer' = [q |-> "can_access_domain", domain |-> domain,
                  result |-> <<Lower(domain) \in
                      Range(RolePermissionsGetIn(permissions,
                                                 principal[1].role))>>]
    /\ UNCHANGED <<authVars, principal, aliasVars, session, ticketVars,
                   objectVars>>

\* ------------------------------------------------------------ the session
\* Home.py:141-148, st.session_state before anyone signed in; page and view
\* are the script the browser shows and how far it ran
NoSession ==
    [logged_in |-> FALSE, username |-> "", user_role |-> "",
     user_object |-> <<>>, page |-> "Home.py", view |-> "login",
     event |-> "none"]

HomePage == "Home.py"

\* the domain each page passes to can_access_domain in its guard
PageDomain ==
    [ pages_1_Cybersecurity |-> "cybersecurity",
      pages_2_Data_Science |-> "datascience",
      pages_3_IT_Operations |-> "itoperations",
      pages_4_AI_Assistant |-> "ai_assistant" ]

DomainPages == DOMAIN PageDomain

\* User.get_home_page: home_pages.get(role, the Cybersecurity page)
get_home_page(user) ==
    LET home_pages ==
            [ cybersecurity |-> "pages_1_Cybersecurity",
              datascience |-> "pages_2_Data_Science",
              itoperations |-> "pages_3_IT_Operations",
              admin |-> "pages_1_Cybersecurity" ]
    IN  IF user.role \in DOMAIN home_pages THEN home_pages[user.role]
        ELSE "pages_1_Cybersecurity"

PageGuard_loginonly(sess, page) ==
    IF ~sess.logged_in THEN "login_required" ELSE "content"

\* the guard at the top of each domain page: st.stop() unless logged_in, then
\* st.stop() when there is a user object whose role lacks the page's domain
PageGuard(sess, page) ==
    IF ~sess.logged_in THEN "login_required"
    ELSE IF /\ sess.user_object # <<>>
            /\ ~can_access_domain(sess.user_object[1], PageDomain[page])
    THEN "access_denied"
    ELSE "content"

\* one run of a page's script on the session state: how far it gets
RunPage(sess, page) ==
    IF page = HomePage
    THEN IF sess.logged_in THEN "welcome" ELSE "login"
    ELSE PageGuard(sess, page)

\* st.switch_page(page), or the browser opening page from the sidebar
Show(sess, page, event) ==
    [sess EXCEPT !.page = page, !.view = RunPage(sess, page), !.event = event]

\* Home.py, login_form submit handler
HomeLogin(username, password) ==
    /\ session.page = HomePage /\ ~session.logged_in
    /\ IF username = "" \/ password = ""
       THEN session' = [session EXCEPT !.event = "login_failed"]
       ELSE LET r == login_user(users, username, password)
            IN  IF r.ok
                THEN session' =
                       Show([session EXCEPT
                                !.logged_in = TRUE,
                                !.username = get_username(r.user[1]),
                                !.user_role = get_role(r.user[1]),
                                !.user_object = r.user],
                            get_home_page(r.user[1]), "login")
                ELSE session' = [session EXCEPT !.event = "login_failed"]
    /\ UNCHANGED <<authVars, userVars, aliasVars, ticketVars, objectVars>>

HomeSignOut_keepuser ==
    /\ session.page = HomePage /\ session.logged_in
    /\ session' = Show([session EXCEPT !.logged_in = FALSE, !.username = "",
                                       !.user_role = ""],
                       HomePage, "sign_out")
    /\ UNCHANGED <<authVars, userVars, aliasVars, ticketVars, objectVars>>

\* Home.py, the Sign Out button and the rerun it ends with
HomeSignOut ==
    /\ session.page = HomePage /\ session.logged_in
    /\ session' = Show([session EXCEPT !.logged_in = FALSE, !.username = "",
                                       !.user_role = "", !.user_object = <<>>],
                       HomePage, "sign_out")
    /\ UNCHANGED <<authVars, userVars, aliasVars, ticketVars, objectVars>>

\* Home.py, the Continue to Dashboard button
HomeContinue ==
    /\ session.page = HomePage /\ session.logged_in
    /\ session.user_object # <<>>
    /\ session' = Show(session, get_home_page(session.user_object[1]),
                       "continue")
    /\ UNCHANGED <<authVars, userVars, aliasVars, ticketVars, objectVars>>

\* the browser opens a page from the sidebar, or a guard's button leads back
\* to Home.py
Navigate(page) ==
    /\ session' = Show(session, page, "navigate")
    /\ UNCHANGED <<authVars, userVars, aliasVars, ticketVars, objectVars>>

\* setup_database: the users table after the demo accounts were registered
DemoUsers ==
    << [username |-> "admin", password |-> "AdminPass123!", role |-> "admin"],
       [username |-> "alice", password |-> "AlicePass123!", role |-> "analyst"],
       [username |-> "bob", password |-> "BobPass123!", role |-> "user"] >>

setup_database(salts) ==
    [i \in 1..Len(DemoUsers) |->
        [id |-> i, username |-> DemoUsers[i].username,
         password_hash |-> _hash_password(DemoUsers[i].password, salts[i]),
         role |-> DemoUsers[i].role]]

\* ------------------------------------------------------------ the tickets
\* an optional value: <<>> is None, <<v>> is v; Python takes None and the
\* empty string for false
Truthy(opt) == opt # <<>> /\ opt[1] # ""

\* ITTicket.__init__, with the fields the setters and the page's actions
\* read or write
ITTicket(ticket_id, ticket_number, status, resolved_date, assigned_to) ==
    [id |-> ticket_id, ticket_number |-> ticket_number, status |-> status,
     resolved_date |-> resolved_date, assigned_to |-> assigned_to]

get_status(t) == t.status

get_resolved_date(t) ==
    IF Truthy(t.resolved_date) THEN t.resolved_date[1] ELSE "Not resolved"

assign_to(t, staff_username) ==
    [t EXCEPT !.assigned_to = <<staff_username>>,
              !.status = IF Lower(@) = "open" THEN "In Progress" ELSE @]

update_status(t, new_status) == [t EXCEPT !.status = new_status]

close_ticket(t, resolution_date) ==
    [t EXCEPT !.status = "Closed",
              !.resolved_date = IF Truthy(resolution_date)
                                THEN resolution_date ELSE @]

is_open(t) == Lower(t.status) \in {"open", "in progress"}

NoCall == [method |-> "none", arg |-> <<>>]

\* the arguments an ITTicket is constructed and called with
TicketStatuses == {"Open", "In Progress", "Resolved", "Closed"}
TicketDates == {<<>>, <<"2024-11-10">>}
TicketStaff == {<<>>, <<"bob">>}
ObjectStatuses == TicketStatuses \cup {"open"}
ObjectStaff == {"alice", "bob"}
CloseDates == {<<>>, <<"">>, <<"2024-11-21">>}
Today == "2024-11-21"

ConstructTicket(status, resolved_date, assigned_to) ==
    /\ ticket' = <<ITTicket(1, <<"TICK-", 1>>, status, resolved_date,
                            assigned_to)>>
    /\ called' = NoCall
    /\ UNCHANGED <<authVars, userVars, aliasVars, session, ticketVars>>

AssignTo(staff_username) ==
    /\ ticket # <<>>
    /\ ticket' = <<assign_to(ticket[1], staff_username)>>
    /\ called' = [method |-> "assign_to", arg |-> <<staff_username>>]
    /\ UNCHANGED <<authVars, userVars, aliasVars, session, ticketVars>>

UpdateStatus(new_status) ==
    /\ ticket # <<>>
    /\ ticket' = <<update_status(ticket[1], new_status)>>
    /\ called' = [method |-> "update_status", arg |-> <<new_status>>]
    /\ UNCHANGED <<authVars, userVars, aliasVars, session, ticketVars>>

\* close_ticket(resolution_date), <<>> for the call without an argument
CloseTicket(resolution_date) ==
    /\ ticket # <<>>
    /\ ticket' = <<close_ticket(ticket[1], resolution_date)>>
    /\ called' = [method |-> "close_ticket", arg |-> resolution_date]
    /\ UNCHANGED <<authVars, userVars, aliasVars, session, ticketVars>>

\* the getters the page shows a ticket with; arg keeps what they returned
GetResolvedDate ==
    /\ ticket # <<>>
    /\ called' = [method |-> "get_resolved_date",
                  arg |-> <<get_resolved_date(ticket[1])>>]
    /\ UNCHANGED <<authVars, userVars, aliasVars, session, ticketVars, ticket>>

IsOpen ==
    /\ ticket # <<>>
    /\ called' = [method |-> "is_open", arg |-> <<is_open(ticket[1])>>]
    /\ UNCHANGED <<authVars, userVars, aliasVars, session, ticketVars, ticket>>

NoDone == [op |-> "none", id |-> 0, number |-> <<>>, ok |-> FALSE]

\* ------------------------------------------------ the IT Operations page
\* f"TICK-{n:04d}": the prefix and the zero-padded number, which is a
\* different text for each n
TicketNumber(n) == <<"TICK-", n>>

\* create_sample_tickets: the first rows of the table setup_database leaves
SampleTickets ==
    << [id |-> 1, ticket_id |-> TicketNumber(1), status |-> "Open",
        resolved_date |-> <<>>, assigned_to |-> <<>>],
       [id |-> 2, ticket_id |-> TicketNumber(2), status |-> "In Progress",
        resolved_date |-> <<>>, assigned_to |-> <<"alice">>] >>

\* load_tickets behind st.cache_data: the cached list when there is one, else
\* the rows read now. Of the loaded ITTicket objects the actions below use
\* get_id and the length of the list, so the list is kept as the ids.
load_tickets ==
    IF tickets # <<>> THEN tickets[1]
    ELSE [i \in 1..Len(it_tickets) |-> it_tickets[i].id]

\* a script run that ends without st.cache_data.clear() leaves the list cached
Cached == tickets' = <<load_tickets>>

\* UPDATE it_tickets SET ... WHERE id = ?
UpdateTicket(id, assignments) ==
    it_tickets' = [i \in 1..Len(it_tickets) |->
                      IF it_tickets[i].id = id
                      THEN [f \in DOMAIN it_tickets[i] |->
                               IF f \in DOMAIN assignments
                               THEN assignments[f] ELSE it_tickets[i][f]]
                      ELSE it_tickets[i]]

\* a successful action: st.cache_data.clear() and st.rerun()
Done(p, op, id, number) ==
    /\ done' = [done EXCEPT ![p] = [op |-> op, id |-> id, number |-> number,
                                    ok |-> TRUE]]
    /\ tickets' = <<>>

\* the Assign button with a username typed in
Assign(p, id, new_assignee) ==
    /\ id \in Range(load_tickets)
    /\ UpdateTicket(id, [assigned_to |-> <<new_assignee>>,
                         status |-> "In Progress"])
    /\ Done(p, "assign", id, <<>>)
    /\ UNCHANGED <<authVars, userVars, aliasVars, session, form, objectVars>>

\* the Update button of the status selectbox
UpdateStatusButton(p, id, new_status) ==
    /\ id \in Range(load_tickets)
    /\ LET resolved_date == IF new_status \in {"Resolved", "Closed"}
                            THEN <<Today>> ELSE <<>>
       IN  UpdateTicket(id, [status |-> new_status,
                             resolved_date |-> resolved_date])
    /\ Done(p, "update_status", id, <<>>)
    /\ UNCHANGED <<authVars, userVars, aliasVars, session, form, objectVars>>

\* the Resolve & Close button
ResolveClose(p, id) ==
    /\ id \in Range(load_tickets)
    /\ UpdateTicket(id, [status |-> "Closed", resolved_date |-> <<Today>>])
    /\ Done(p, "resolve_close", id, <<>>)
    /\ UNCHANGED <<authVars, userVars, aliasVars, session, form, objectVars>>

\* new_ticket_form up to the submit: the script run loads the tickets and
\* puts the next ticket number into the form
new_ticket_form_render(p) ==
    /\ form[p] = <<>>
    /\ form' = [form EXCEPT ![p] = <<TicketNumber(Len(load_tickets) + 1)>>]
    /\ Cached
    /\ UNCHANGED <<authVars, userVars, aliasVars, session, it_tickets, done,
                   objectVars>>

\* INSERT INTO it_tickets under ticket_id TEXT UNIQUE NOT NULL
insert_ticket(store, ticket_number, status) ==
    IF \E i \in 1..Len(store) : store[i].ticket_id = ticket_number
    THEN [raised |-> TRUE, store |-> store]
    ELSE [raised |-> FALSE,
          store |-> Append(store, [id |-> Len(store) + 1,
                                   ticket_id |-> ticket_number,
                                   status |-> status,
                                   resolved_date |-> <<>>,
                                   assigned_to |-> <<>>])]

\* new_ticket_form submit handler with a subject and a description that pass
\* its checks: the INSERT under the number in the form
new_ticket_form_submit(p, status) ==
    /\ form[p] # <<>>
    /\ LET ins == insert_ticket(it_tickets, form[p][1], status)
       IN  /\ ins.raised \/ Len(it_tickets) < MaxTickets
           /\ it_tickets' = ins.store
           /\ IF ins.raised
              THEN /\ done' = [done EXCEPT ![p] =
                                  [op |-> "create", id |-> 0,
                                   number |-> form[p], ok |-> FALSE]]
                   /\ tickets' = tickets
              ELSE Done(p, "create", Len(it_tickets) + 1, form[p])
    /\ form' = [form EXCEPT ![p] = <<>>]
    /\ UNCHANGED <<authVars, userVars, aliasVars, session, objectVars>>

\* the cache entry expires after ttl=60, or Refresh Data clears it
CacheExpires ==
    /\ tickets # <<>>
    /\ tickets' = <<>>
    /\ UNCHANGED <<authVars, userVars, aliasVars, session, it_tickets, form,
                   done, objectVars>>

\* ---------------------------------------------------------- specifications
Init ==
    /\ users = <<>>
    /\ pc = [p \in Procs |-> "idle"]
    /\ loc = [p \in Procs |-> NoLoc]
    /\ ret = [p \in Procs |-> NoRet]
    /\ pwset = [u \in Usernames \cup SessionUsernames |-> <<>>]
    /\ touched = [p \in Procs |-> 0]
    /\ raised = [p \in Procs |-> FALSE]
    /\ compared = [p \in Procs |-> 0]
    /\ principal = <<>>
    /\ answer = NoAnswer
    /\ permissions = ROLE_PERMISSIONS
    /\ held = <<>>
    /\ session = NoSession
    /\ it_tickets = <<>>
    /\ tickets = <<>>
    /\ form = [p \in Procs |-> <<>>]
    /\ done = [p \in Procs |-> NoDone]
    /\ ticket = <<>>
    /\ called = NoCall

\* one caller, one call after another
Next ==
    \E p \in SeqProcs :
        \/ \E u \in Usernames, pw \in Passwords, r \in Roles :
               register_user_begin(p, u, pw, r)
        \/ register_user_insert(p)
        \/ \E u \in Usernames, pw \in Passwords : login_user_call(p, u, pw)
        \/ \E u \in Usernames, old \in Passwords, new \in Passwords :
               change_password_begin(p, u, old, new)
        \/ change_password_update(p)

Spec == Init /\ [][Next]_vars

\* two sessions of the Streamlit server sharing the cached DatabaseManager;
\* their calls interleave between any two store accesses
NextConc ==
    \E p \in Procs :
        \/ \E u \in ConcUsernames, pw \in ConcPasswords, r \in ConcRoles :
               register_user_begin(p, u, pw, r)
        \/ register_user_insert(p)
        \/ \E u \in ConcUsernames, pw \in ConcPasswords : login_user_call(p, u, pw)
        \/ \E u \in ConcUsernames, old \in ConcPasswords, new \in ConcPasswords :
               change_password_begin(p, u, old, new)
        \/ change_password_update(p)

SpecConc == Init /\ [][NextConc]_vars

\* a User object and the queries the pages make on it
NextUser ==
    \/ \E u \in Usernames \ {""}, pw \in ConcPasswords, s \in 1..MaxSalt,
          r \in UserRoles :
           ConstructUser(u, hashpw(pw, s), r)
    \/ \E d \in DomainArgs : CanAccessDomain(d)
    \/ GetAllowedDomains
    \/ IsAdmin

SpecUser == Init /\ [][NextUser]_vars

\* one caller, one call after another, over a store whose reads, statements
\* and commits may raise
NextFault ==
    \E p \in SeqProcs :
        \/ \E u \in FaultUsernames, pw \in FaultPasswords, r \in FaultRoles :
               \/ register_user_begin(p, u, pw, r)
               \/ register_user_fetch_raises(p, u, pw, r)
        \/ register_user_insert(p)
        \/ register_user_execute_raises(p)
        \/ register_user_commit_raises(p)
        \/ \E u \in FaultUsernames, pw \in FaultPasswords :
               \/ login_user_call(p, u, pw)
               \/ login_user_fetch_raises(p, u, pw)
        \/ \E u \in FaultUsernames, old \in FaultPasswords, new \in FaultPasswords :
               \/ change_password_begin(p, u, old, new)
               \/ change_password_fetch_raises(p, u, old, new)
        \/ change_password_update(p)
        \/ change_password_execute_raises(p)
        \/ change_password_commit_raises(p)

SpecFault == Init /\ [][NextFault]_vars

\* a User object whose caller keeps and changes the list get_allowed_domains
\* returned
NextAlias ==
    \/ \E r \in AliasRoles : ConstructUser("alice", hashpw("12345678", 1), r)
    \/ GetAllowedDomainsObject
    \/ \E d \in AliasDomains : ListAppend(d)
    \/ ListClear
    \/ \E d \in AliasDomains : CanAccessDomainShared(d)

SpecAlias == Init /\ [][NextAlias]_vars

\* one browser session on the application after setup_database ran
InitSession ==
    /\ \E salts \in [1..Len(DemoUsers) -> 1..MaxSalt] :
          users = setup_database(salts)
    /\ pc = [p \in Procs |-> "idle"]
    /\ loc = [p \in Procs |-> NoLoc]
    /\ ret = [p \in Procs |-> NoRet]
    /\ pwset = [u \in Usernames \cup SessionUsernames |->
                   IF \E i \in 1..Len(DemoUsers) : DemoUsers[i].username = u
                   THEN <<(CHOOSE d \in Range(DemoUsers) :
                              d.username = u).password>>
                   ELSE <<>>]
    /\ touched = [p \in Procs |-> 0]
    /\ raised = [p \in Procs |-> FALSE]
    /\ compared = [p \in Procs |-> 0]
    /\ principal = <<>>
    /\ answer = NoAnswer
    /\ permissions = ROLE_PERMISSIONS
    /\ held = <<>>
    /\ session = NoSession
    /\ it_tickets = <<>>
    /\ tickets = <<>>
    /\ form = [p \in Procs |-> <<>>]
    /\ done = [p \in Procs |-> NoDone]
    /\ ticket = <<>>
    /\ called = NoCall

NextSession ==
    \/ \E u \in SessionUsernames \cup {""}, pw \in SessionPasswords :
           HomeLogin(u, pw)
    \/ HomeSignOut
    \/ HomeContinue
    \/ \E page \in DomainPages \cup {HomePage} : Navigate(page)
    \/ \E r \in RoleOptions : register_user_begin(1, "carol", "CarolPass123!", r)
    \/ register_user_insert(1)

SpecSession == InitSession /\ [][NextSession]_vars

\* an ITTicket object and the setters called on it
NextObject ==
    \/ \E st \in ObjectStatuses, d \in TicketDates, a \in TicketStaff :
           ConstructTicket(st, d, a)
    \/ \E a \in ObjectStaff : AssignTo(a)
    \/ \E st \in TicketStatuses : UpdateStatus(st)
    \/ \E d \in CloseDates : CloseTicket(d)
    \/ GetResolvedDate
    \/ IsOpen

SpecObject == Init /\ [][NextObject]_vars

\* two sessions on the IT Operations page after setup_database ran: both
\* create tickets, the first also manages them
InitTicket ==
    /\ users = <<>>
    /\ pc = [p \in Procs |-> "idle"]
    /\ loc = [p \in Procs |-> NoLoc]
    /\ ret = [p \in Procs |-> NoRet]
    /\ pwset = [u \in Usernames \cup SessionUsernames |-> <<>>]
    /\ touched = [p \in Procs |-> 0]
    /\ raised = [p \in Procs |-> FALSE]
    /\ compared = [p \in Procs |-> 0]
    /\ principal = <<>>
    /\ answer = NoAnswer
    /\ permissions = ROLE_PERMISSIONS
    /\ held = <<>>
    /\ session = NoSession
    /\ it_tickets = SampleTickets
    /\ tickets = <<>>
    /\ form = [p \in Procs |-> <<>>]
    /\ done = [p \in Procs |-> NoDone]
    /\ ticket = <<>>
    /\ called = NoCall

NextTicket ==
    \/ \E p \in SeqProcs :
           \/ \E id \in 1..MaxTickets : Assign(p, id, "bob")
           \/ \E id \in 1..MaxTickets, st \in TicketStatuses :
                  UpdateStatusButton(p, id, st)
           \/ \E id \in 1..MaxTickets : ResolveClose(p, id)
    \/ \E p \in Procs :
           \/ new_ticket_form_render(p)
           \/ \E st \in {"Open", "In Progress"} : new_ticket_form_submit(p, st)
    \/ CacheExpires

SpecTicket == InitTicket /\ [][NextTicket]_vars

\* ------------------------------------------------------------------ claims
\* the step is one of session p's
StepBy(p) == ret'[p] # ret[p] \/ pc'[p] # pc[p]

ValidRegistration(username, password) ==
    /\ username # ""
    /\ password # ""
    /\ Len(password) >= MinPasswordLen

\* the store without the rows of one username
Without(store, username) ==
    SelectSeq(store, LAMBDA row : row.username # username)

\* C1, as stated: register(u, P, r) followed immediately by login(u, P)
\* succeeds and returns a principal whose username is u and whose role() is r.
C1_RoundTripRoleAsGiven ==
    [][\A p \in Procs :
          (/\ pc[p] = "idle" /\ ret[p].op = "register" /\ ret[p].ok
           /\ StepBy(p) /\ pc'[p] = "idle" /\ ret'[p].op = "login"
           /\ ret'[p].username = ret[p].username
           /\ ret'[p].password = ret[p].password)
          => /\ ret'[p].ok
             /\ Len(ret'[p].user) = 1
             /\ get_username(ret'[p].user[1]) = ret[p].username
             /\ get_role(ret'[p].user[1]) = ret[p].arg]_vars

\* C1, amended: register(u, P, r) followed immediately by login(u, P) succeeds
\* and returns a principal whose username is u and whose role() is r in lower
\* case.
C1_RoundTrip ==
    [][\A p \in Procs :
          (/\ pc[p] = "idle" /\ ret[p].op = "register" /\ ret[p].ok
           /\ StepBy(p) /\ pc'[p] = "idle" /\ ret'[p].op = "login"
           /\ ret'[p].username = ret[p].username
           /\ ret'[p].password = ret[p].password)
          => /\ ret'[p].ok
             /\ Len(ret'[p].user) = 1
             /\ get_username(ret'[p].user[1]) = ret[p].username
             /\ get_role(ret'[p].user[1]) = Lower(ret[p].arg)]_vars

\* a login that succeeded for a username registered with the role "Analyst"
C1_Witness ==
    /\ ret[1].op = "login" /\ ret[1].ok
    /\ get_role(ret[1].user[1]) = "analyst"
    /\ \E i \in 1..Len(users) :
          /\ users[i].username = ret[1].username
          /\ users[i].role = "Analyst"
          /\ pwset[ret[1].username] = <<ret[1].password>>

\* C2: a login that returned success was given the password currently set for
\* its username; no login succeeds for a username without a record or with
\* any other password.
C2_NegativeVerification ==
    \A p \in Procs :
        (ret[p].op = "login" /\ ret[p].ok)
        => pwset[ret[p].username] = <<ret[p].password>>

\* a login refused for a registered username and a well-formed password that
\* is not the one currently set
C2_Witness ==
    /\ ret[1].op = "login" /\ ~ret[1].ok
    /\ pwset[ret[1].username] # <<>>
    /\ Len(ret[1].password) >= MinPasswordLen
    /\ pwset[ret[1].username] # <<ret[1].password>>

\* C3: a failing login returns the same triple (False, None, message) in the
\* current store as in the store where its username has no record.
C3_NoEnumeration ==
    /\ \A u \in Usernames, pw \in Passwords :
          ~login_user(users, u, pw).ok
          => login_user(users, u, pw) = login_user(Without(users, u), u, pw)
    /\ \A p \in Procs :
          (ret[p].op = "login" /\ ~ret[p].ok)
          => LET there == login_user(Without(users, ret[p].username),
                                     ret[p].username, ret[p].password)
             IN  <<ret[p].ok, ret[p].user, ret[p].msg>>
                   = <<FALSE, <<>>, there.msg>>

\* a login refused for a username that has a record
C3_Witness ==
    /\ ret[1].op = "login" /\ ~ret[1].ok
    /\ ret[1].password # ""
    /\ Matching(users, ret[1].username) # {}
    /\ ret[1].msg = MsgInvalid

\* a register call that runs to its INSERT creates the record it was given
InsertCreates(p) ==
    /\ ret'[p].ok
    /\ Len(users') = Len(users) + 1
    /\ SubSeq(users', 1, Len(users)) = users
    /\ LET row == users'[Len(users')]
       IN  /\ row.username = loc[p].username
           /\ row.role = loc[p].role
           /\ _verify_password(loc[p].password, row.password_hash)

\* C4, as stated: a register call for a fresh username succeeds; a register
\* call for a username that has a record fails with the duplicate-username
\* message whatever password and role it carries, and leaves the store as the
\* first call wrote it.
C4_DuplicateWhateverPassword ==
    [][\A p \in Procs :
          /\ (StepBy(p) /\ pc[p] = "reg_insert") => InsertCreates(p)
          /\ (StepBy(p) /\ pc[p] = "idle" /\ pc'[p] = "reg_insert")
             => Matching(users, loc'[p].username) = {}
          /\ (/\ StepBy(p) /\ pc[p] = "idle" /\ pc'[p] = "idle"
              /\ ret'[p].op = "register"
              /\ Matching(users, ret'[p].username) # {})
             => /\ ~ret'[p].ok
                /\ users' = users
                /\ ret'[p].msg = MsgExists(ret'[p].username)]_vars

\* C4, amended: a register call for a fresh username succeeds; a register call
\* for a username that has a record fails and leaves the store as the first
\* call wrote it: with the duplicate-username message when its password passes
\* validation, with the validation message otherwise.
C4_DuplicateRejection ==
    [][\A p \in Procs :
          /\ (StepBy(p) /\ pc[p] = "reg_insert") => InsertCreates(p)
          /\ (StepBy(p) /\ pc[p] = "idle" /\ pc'[p] = "reg_insert")
             => Matching(users, loc'[p].username) = {}
          /\ (/\ StepBy(p) /\ pc[p] = "idle" /\ pc'[p] = "idle"
              /\ ret'[p].op = "register"
              /\ Matching(users, ret'[p].username) # {})
             => /\ ~ret'[p].ok
                /\ users' = users
                /\ ret'[p].msg =
                      IF ret'[p].password = "" THEN MsgEmpty
                      ELSE IF Len(ret'[p].password) < MinPasswordLen
                      THEN MsgTooShort
                      ELSE MsgExists(ret'[p].username)]_vars

\* a second registration, with another password and another role, refused as
\* a duplicate while the record keeps the first call's digest and role
C4_Witness ==
    /\ ret[1].op = "register" /\ ~ret[1].ok
    /\ ret[1].msg = MsgExists(ret[1].username)
    /\ \E i \in 1..Len(users) :
          /\ users[i].username = ret[1].username
          /\ users[i].role # ret[1].arg
          /\ ~_verify_password(ret[1].password, users[i].password_hash)

\* C5: of two register calls for the same username that have both returned,
\* one of them with success, the other returned failure with the message of a
\* sequential duplicate registration.
C5_ConcurrentRegistration ==
    \A p \in Procs, q \in Procs :
        (/\ p # q
         /\ pc[p] = "idle" /\ pc[q] = "idle"
         /\ ret[p].op = "register" /\ ret[q].op = "register"
         /\ ret[p].username = ret[q].username
         /\ ValidRegistration(ret[q].username, ret[q].password)
         /\ ret[p].ok)
        => /\ ~ret[q].ok
           /\ ret[q].msg = MsgExists(ret[q].username)

\* C6: the users table never holds two rows with the same username.
C6_UsernameUnique ==
    \A i \in 1..Len(users), j \in 1..Len(users) :
        users[i].username = users[j].username => i = j

\* two registrations raced for one username and the store refused the second
\* INSERT
C6_Witness ==
    /\ \E q \in Procs : ret[q].msg = MsgRegistrationFailed
    /\ \E p \in Procs : ret[p].op = "register" /\ ret[p].ok
    /\ Len(users) = 1

Listed(role, domain) ==
    /\ role \in DOMAIN ROLE_PERMISSIONS
    /\ domain \in Range(ROLE_PERMISSIONS[role])

\* C7, as stated: can_access_domain answers true only when the pair
\* (principal's role, domain) is listed in ROLE_PERMISSIONS.
C7_TrueOnlyWhenListed ==
    (answer.q = "can_access_domain" /\ answer.result[1])
    => Listed(get_role(principal[1]), answer.domain)

\* C7, amended: can_access_domain answers true exactly when the pair
\* (principal's role, domain in lower case) is listed in ROLE_PERMISSIONS, and
\* false for every other pair, every unknown role and every unknown domain.
C7_FailClosed ==
    answer.q = "can_access_domain"
    => /\ answer.result[1]
          <=> Listed(get_role(principal[1]), Lower(answer.domain))
       /\ get_role(principal[1])
             \notin {"cybersecurity", "datascience", "itoperations", "admin"}
          => ~answer.result[1]
       /\ (get_role(principal[1]) = "itoperations"
           /\ answer.domain = "cybersecurity") => ~answer.result[1]
       /\ (get_role(principal[1]) = "cybersecurity"
           /\ answer.domain = "datascience") => ~answer.result[1]
       /\ (get_role(principal[1]) = "admin"
           /\ answer.domain = "cybersecurity") => answer.result[1]

\* a principal of a role that is no key of the table, refused a known domain
C7_Witness ==
    /\ answer.q = "can_access_domain"
    /\ get_role(principal[1]) = "analyst"
    /\ answer.domain = "ai_assistant"
    /\ answer.result = <<FALSE>>

ExpectedDomains(role) ==
    CASE role = "cybersecurity" -> {"cybersecurity", "ai_assistant"}
      [] role = "datascience" -> {"datascience", "ai_assistant"}
      [] role = "itoperations" -> {"itoperations", "ai_assistant"}
      [] role = "admin" -> {"cybersecurity", "datascience", "itoperations",
                            "ai_assistant", "admin_panel"}
      [] OTHER -> {}

SelfRegistrationRoles == {"cybersecurity", "datascience", "itoperations"}

\* C9, as stated: a register call succeeds only with one of the three
\* non-administrator roles, and no record carries any other role.
C9_OnlySelfRegistrationRoles ==
    /\ \A p \in Procs :
          (ret[p].op = "register" /\ ret[p].ok)
          => ret[p].arg \in SelfRegistrationRoles
    /\ \A i \in 1..Len(users) : users[i].role \in SelfRegistrationRoles

\* C9, amended: register does not look at the role. A call is refused only for
\* an empty field, a short password or a username that has a record; every
\* other call, whatever its role, runs to the INSERT and creates a record
\* carrying the role as given.
C9_RoleNotChecked ==
    [][\A p \in Procs :
          /\ (/\ StepBy(p) /\ pc[p] = "idle" /\ pc'[p] = "idle"
              /\ ret'[p].op = "register")
             => /\ ~ret'[p].ok
                /\ users' = users
                /\ \/ ~ValidRegistration(ret'[p].username, ret'[p].password)
                   \/ Matching(users, ret'[p].username) # {}
          /\ (StepBy(p) /\ pc[p] = "reg_insert")
             => /\ ret'[p].ok
                /\ ret'[p].arg = loc[p].role
                /\ users'[Len(users')].role = loc[p].role
                /\ users'[Len(users')].username = loc[p].username]_vars

\* a registration with the administrator role succeeded and left its record
C9_Witness ==
    /\ ret[1].op = "register" /\ ret[1].ok /\ ret[1].arg = "admin"
    /\ \E i \in 1..Len(users) :
          users[i].username = ret[1].username /\ users[i].role = "admin"

\* C10, as stated: change_password with an old password that is not the one
\* currently set fails and leaves the store unchanged; afterwards login with
\* the original password succeeds and login with the new password does not.
C10_GateNewNeverLogsIn ==
    [][\A p \in Procs :
          /\ (StepBy(p) /\ pc[p] = "idle" /\ pc'[p] = "cp_update")
             => pwset[loc'[p].username] = <<loc'[p].password>>
          /\ (/\ StepBy(p) /\ pc[p] = "idle" /\ pc'[p] = "idle"
              /\ ret'[p].op = "change_password"
              /\ pwset[ret'[p].username] # <<>>
              /\ pwset[ret'[p].username] # <<ret'[p].password>>)
             => /\ ~ret'[p].ok
                /\ users' = users
                /\ login_user(users', ret'[p].username,
                              pwset[ret'[p].username][1]).ok
                /\ ~login_user(users', ret'[p].username, ret'[p].arg).ok]_vars

\* C10, amended: change_password with an old password that is not the one
\* currently set fails and leaves the store unchanged; afterwards login with
\* the original password succeeds, and login with the new password does not
\* unless the new password is the original one.
C10_PasswordChangeGate ==
    [][\A p \in Procs :
          /\ (StepBy(p) /\ pc[p] = "idle" /\ pc'[p] = "cp_update")
             => pwset[loc'[p].username] = <<loc'[p].password>>
          /\ (/\ StepBy(p) /\ pc[p] = "idle" /\ pc'[p] = "idle"
              /\ ret'[p].op = "change_password"
              /\ pwset[ret'[p].username] # <<>>
              /\ pwset[ret'[p].username] # <<ret'[p].password>>)
             => /\ ~ret'[p].ok
                /\ users' = users
                /\ login_user(users', ret'[p].username,
                              pwset[ret'[p].username][1]).ok
                /\ <<ret'[p].arg>> # pwset[ret'[p].username]
                   => ~login_user(users', ret'[p].username, ret'[p].arg).ok]_vars

\* a change refused for a wrong old password, with a well-formed new password
\* that is not the current one
C10_Witness ==
    /\ ret[1].op = "change_password" /\ ~ret[1].ok
    /\ ret[1].msg = MsgIncorrect
    /\ pwset[ret[1].username] # <<>>
    /\ Len(ret[1].arg) >= MinPasswordLen
    /\ pwset[ret[1].username] # <<ret[1].arg>>
    /\ pwset[ret[1].username] # <<ret[1].password>>

\* C11: the digest of an existing record changes only in the UPDATE step of a
\* change_password call, and a change_password call reaches its UPDATE only
\* after its login_user verification of the old password succeeded; no step
\* of register or login changes the digest of an existing record.
C11_DigestOverwrite ==
    [][/\ Len(users') >= Len(users)
       /\ \A i \in 1..Len(users) :
             users'[i].password_hash # users[i].password_hash
             => \E p \in Procs :
                   /\ StepBy(p) /\ pc[p] = "cp_update"
                   /\ ret'[p].op = "change_password"
                   /\ loc[p].username = users[i].username
       /\ \A p \in Procs :
             (StepBy(p) /\ pc[p] = "idle" /\ pc'[p] = "cp_update")
             => login_user(users, loc'[p].username, loc'[p].password).ok]_vars

\* a change_password call replaced the digest by one of another password
C11_Witness ==
    \E p \in Procs :
        /\ ret[p].op = "change_password" /\ ret[p].ok
        /\ ret[p].arg # ret[p].password
        /\ \E i \in 1..Len(users) :
              /\ users[i].username = ret[p].username
              /\ _verify_password(ret[p].arg, users[i].password_hash)

\* C12: login returns a principal if and only if it returns success.
C12_NoPrincipalOnFailure ==
    /\ \A p \in Procs :
          ret[p].op = "login" => (ret[p].ok <=> ret[p].user # <<>>)
    /\ \A u \in Usernames, pw \in Passwords :
          login_user(users, u, pw).ok <=> login_user(users, u, pw).user # <<>>

\* a login with a wrong password for a registered username returned no
\* principal
C12_Witness ==
    /\ ret[1].op = "login" /\ ~ret[1].ok /\ ret[1].user = <<>>
    /\ Len(ret[1].password) >= MinPasswordLen
    /\ Matching(users, ret[1].username) # {}

ValidationMsgs == {MsgEmpty, MsgTooShort, MsgNewTooShort}

\* C13, as stated: every call that returns a validation failure (an empty
\* field, a password or new password shorter than 8 characters) has made no
\* access to the store.
C13_ValidationBeforeStore ==
    \A p \in Procs :
        (pc[p] = "idle" /\ ret[p].op # "none" /\ ret[p].msg \in ValidationMsgs)
        => touched[p] = 0

\* C13, amended: register and login return every validation failure before any
\* access to the store, and change_password refuses an empty username or old
\* password before any access; change_password returns the failure for a new
\* password shorter than 8 characters after the one read of its login_user
\* verification, and without any write.
C13_ValidationOrder ==
    \A p \in Procs :
        pc[p] = "idle"
        => /\ (ret[p].op \in {"register", "login"}
               /\ ret[p].msg \in ValidationMsgs) => touched[p] = 0
           /\ (ret[p].op = "change_password"
               /\ (ret[p].username = "" \/ ret[p].password = ""))
              => (touched[p] = 0 /\ ~ret[p].ok)
           /\ (ret[p].op = "change_password" /\ ret[p].msg = MsgNewTooShort)
              => touched[p] = 1

\* a change_password call refused for its short new password after it read the
\* store
C13_Witness ==
    /\ ret[1].op = "change_password" /\ ret[1].msg = MsgNewTooShort
    /\ touched[1] = 1

\* C14: for a fresh username, register with a password shorter than 8
\* characters fails with a validation message and creates no record, and
\* register with a password of exactly 8 characters runs to its INSERT and
\* creates the record.
C14_MinimumLength ==
    [][\A p \in Procs :
          /\ (/\ StepBy(p) /\ pc[p] = "idle" /\ pc'[p] = "idle"
              /\ ret'[p].op = "register" /\ ret'[p].username # ""
              /\ Matching(users, ret'[p].username) = {})
             => /\ Len(ret'[p].password) < MinPasswordLen
                /\ ~ret'[p].ok
                /\ ret'[p].msg = IF ret'[p].password = ""
                                 THEN MsgEmpty ELSE MsgTooShort
                /\ users' = users
          /\ (StepBy(p) /\ pc[p] = "idle" /\ pc'[p] = "reg_insert")
             => Len(loc'[p].password) >= MinPasswordLen
          /\ (StepBy(p) /\ pc[p] = "reg_insert") => InsertCreates(p)]_vars

\* a registration with a password of exactly 8 characters succeeded, next to a
\* state where one of 7 characters was refused
C14_Witness ==
    /\ ret[1].op = "register" /\ ret[1].ok
    /\ Len(ret[1].password) = MinPasswordLen
    /\ \E i \in 1..Len(users) :
          /\ users[i].username = ret[1].username
          /\ _verify_password(ret[1].password, users[i].password_hash)

\* C15: change_password with the correct old password and a new password
\* shorter than 8 characters fails, leaves the store unchanged, and login with
\* the old password still succeeds.
C15_NewPasswordLength ==
    [][\A p \in Procs :
          /\ (/\ StepBy(p) /\ pc[p] = "idle" /\ pc'[p] = "idle"
              /\ ret'[p].op = "change_password"
              /\ pwset[ret'[p].username] = <<ret'[p].password>>
              /\ Len(ret'[p].arg) < MinPasswordLen)
             => /\ ~ret'[p].ok
                /\ ret'[p].msg = MsgNewTooShort
                /\ users' = users
                /\ login_user(users', ret'[p].username, ret'[p].password).ok
          /\ (StepBy(p) /\ pc[p] = "idle" /\ pc'[p] = "cp_update")
             => Len(loc'[p].new_password) >= MinPasswordLen]_vars

\* a change refused for its 7-character new password although the old one is
\* the password that logs in
C15_Witness ==
    /\ ret[1].op = "change_password" /\ ~ret[1].ok
    /\ ret[1].arg = "1234567"
    /\ login_user(users, ret[1].username, ret[1].password).ok

\* C16: a register call that returns failure leaves the store as it was, and
\* one that returns success leaves a record whose digest verifies the
\* password.
C16_NoPartialState ==
    [][\A p \in Procs :
          (StepBy(p) /\ pc'[p] = "idle" /\ ret'[p].op = "register"
           /\ ~raised'[p])
          => IF ret'[p].ok
             THEN \E i \in 1..Len(users') :
                     /\ users'[i].username = ret'[p].username
                     /\ _verify_password(ret'[p].password,
                                         users'[i].password_hash)
             ELSE users' = users]_vars

\* C17: a record is never removed, and its username, role and id never change.
C17_Lifecycle ==
    [][/\ Len(users') >= Len(users)
       /\ \A i \in 1..Len(users) :
             /\ users'[i].username = users[i].username
             /\ users'[i].role = users[i].role
             /\ users'[i].id = users[i].id]_vars

\* two records, one of which went through a password change
C17_Witness ==
    /\ Len(users) = 2
    /\ ret[1].op = "change_password" /\ ret[1].ok
    /\ ret[1].arg # ret[1].password

\* C18: the password_hash of every record is an output of the salted hash for
\* the password set for its username, and is not a password in plain text.
C18_NoPlaintext ==
    \A i \in 1..Len(users) :
        /\ pwset[users[i].username] # <<>>
        /\ \E salt \in 1..MaxSalt :
              users[i].password_hash
                = hashpw(pwset[users[i].username][1], salt)
        /\ \A pw \in Passwords : users[i].password_hash # Plaintext(pw)

\* a record written by register and one rewritten by change_password
C18_Witness ==
    /\ Len(users) = 2
    /\ ret[1].op = "change_password" /\ ret[1].ok
    /\ \E i \in 1..Len(users) :
          users[i].password_hash.key = ret[1].arg

\* C19: change_password for a username without a record fails with an outcome
\* other than the one for a wrong old password.
C19_NotFoundDistinct ==
    \A p \in Procs :
        (/\ pc[p] = "idle" /\ ret[p].op = "change_password"
         /\ ret[p].username # "" /\ ret[p].password # ""
         /\ Matching(users, ret[p].username) = {})
        => (~ret[p].ok /\ ret[p].msg # MsgIncorrect)

\* C20: no call of register, login or change_password ends by an exception
\* leaving it, whatever the store does.
C20_FailuresAreValues == \A p \in Procs : ~raised[p]

\* C24: within a login call the hash comparison is executed if and only if the
\* lookup found a record; for an absent username the call returns its failure
\* without any comparison.
C24_LoginStepOrder ==
    [][\A p \in Procs :
          (StepBy(p) /\ ret'[p].op = "login" /\ ~raised'[p])
          => LET found == /\ touched'[p] = 1
                          /\ fetch_one(users, ret'[p].username) # <<>>
             IN  /\ compared'[p] = 1 <=> found
                 /\ ~found => (~ret'[p].ok /\ compared'[p] = 0)]_vars

\* a login for a username without a record returned the generic failure after
\* its lookup and without a comparison
C24_Witness ==
    /\ ret[1].op = "login" /\ ret[1].msg = MsgInvalid
    /\ touched[1] = 1 /\ compared[1] = 0
    /\ Matching(users, ret[1].username) = {}

\* C25: after a successful change_password with a new password different from
\* the old one, login with the new password succeeds and login with the old
\* one fails, and the digest stays so until a later change_password succeeds;
\* when two sessions both ran change_password with a correct old password, the
\* stored digest verifies exactly one of their two new passwords.
C25_ChangeTakesEffect ==
    [][/\ \A p \in Procs :
             (StepBy(p) /\ pc[p] = "cp_update" /\ ret'[p].ok
              /\ ret'[p].arg # ret'[p].password)
             => /\ login_user(users', ret'[p].username, ret'[p].arg).ok
                /\ ~login_user(users', ret'[p].username, ret'[p].password).ok
       /\ \A i \in 1..Len(users) :
             users'[i].password_hash # users[i].password_hash
             => \E p \in Procs :
                   /\ StepBy(p) /\ pc[p] = "cp_update" /\ ret'[p].ok
                   /\ ret'[p].username = users[i].username
       /\ (/\ \A p \in Procs : pc'[p] = "idle" /\ ret'[p].ok
                                /\ ret'[p].op = "change_password"
           /\ ret'[1].username = ret'[2].username
           /\ ret'[1].arg # ret'[2].arg)
          => \E i \in 1..Len(users') :
                /\ users'[i].username = ret'[1].username
                /\ Cardinality({p \in Procs :
                      _verify_password(ret'[p].arg, users'[i].password_hash)})
                   = 1]_vars

\* two sessions changed the password of one username from the same old
\* password to two different new ones
C25_Witness ==
    /\ \A p \in Procs : pc[p] = "idle" /\ ret[p].ok
                        /\ ret[p].op = "change_password"
    /\ ret[1].username = ret[2].username
    /\ ret[1].password = ret[2].password
    /\ Cardinality({ret[1].password, ret[1].arg, ret[2].arg}) = 3
    /\ \E i \in 1..Len(users) :
          /\ users[i].username = ret[1].username
          /\ _verify_password(ret[2].arg, users[i].password_hash)

\* C21: no operation of a caller changes the role-to-domain table, so
\* can_access_domain answers for a role and a domain what the table as written
\* gives, in every reachable state.
C21_TableImmutable ==
    /\ permissions = ROLE_PERMISSIONS
    /\ (principal # <<>> /\ answer.q = "can_access_domain")
       => answer.result[1] = can_access_domain(principal[1], answer.domain)

\* C22: a domain page is past its guard exactly when the session is logged in
\* and holds a principal whose role permits the page's domain; in every other
\* session state the page has stopped at the guard.
C22_PageGuard ==
    session.page \in DomainPages
    => (session.view = "content"
        <=> /\ session.logged_in
            /\ session.user_object # <<>>
            /\ can_access_domain(session.user_object[1],
                                 PageDomain[session.page]))

\* a logged-in principal stopped at the guard of a page its role lacks
C22_Witness ==
    /\ session.logged_in /\ session.user_role = "itoperations"
    /\ session.page = "pages_2_Data_Science"
    /\ session.view = "access_denied"

\* C23: logged_in is true exactly when the session holds a principal; while
\* logged in, username and user_role are the principal's; when not logged in,
\* and so after Sign Out, there is no principal and both are empty.
C23_SessionConsistency ==
    /\ session.logged_in <=> session.user_object # <<>>
    /\ session.logged_in
       => /\ session.username = get_username(session.user_object[1])
          /\ session.user_role = get_role(session.user_object[1])
    /\ ~session.logged_in
       => session.username = "" /\ session.user_role = ""

\* a session that signed out after a login
C23_Witness ==
    /\ session.event = "sign_out"
    /\ ~session.logged_in /\ session.user_object = <<>>

\* C26: the page a login or the Continue button redirects to is one whose
\* guard lets the principal through.
C26_HomePageReachable ==
    session.event \in {"login", "continue"} => session.view = "content"

\* C28: after close_ticket, with or without a date, the status is 'Closed' and
\* get_resolved_date returns a date, never 'Not resolved'.
C28_CloseRecordsDate ==
    called.method = "close_ticket"
    => /\ get_status(ticket[1]) = "Closed"
       /\ get_resolved_date(ticket[1]) # "Not resolved"
       /\ Truthy(called.arg) => get_resolved_date(ticket[1]) = called.arg[1]
       /\ ~Truthy(called.arg) => get_resolved_date(ticket[1]) = Today

\* C27: the page's Assign action leaves the stored ticket in the status that
\* ITTicket.assign_to produces from the same ticket: 'In Progress' for an Open
\* ticket, the unchanged status otherwise.
C27_AssignAgrees ==
    [][\A p \in Procs :
          (/\ done'[p].op = "assign"
           /\ Len(it_tickets') = Len(it_tickets)
           /\ it_tickets' # it_tickets)
          => \A i \in 1..Len(it_tickets) :
                it_tickets[i].id = done'[p].id
                => it_tickets'[i].status
                     = get_status(assign_to(
                          ITTicket(it_tickets[i].id, it_tickets[i].ticket_id,
                                   it_tickets[i].status,
                                   it_tickets[i].resolved_date,
                                   it_tickets[i].assigned_to),
                          it_tickets'[i].assigned_to[1]))]_vars

\* C29: a stored ticket has a resolved_date exactly when its status is
\* Resolved or Closed.
C29_ResolvedDateIffResolved ==
    \A i \in 1..Len(it_tickets) :
        it_tickets[i].resolved_date # <<>>
        <=> it_tickets[i].status \in {"Resolved", "Closed"}

====
